---- MODULE Spec2Model ----
(***************************************************************************)
(* Model of the MIDI style-transfer engine of yesand-music:                *)
(*   applySwing / applyAccent / applyHumanization, the applyStyle buffer   *)
(*   pipeline and the humanization random generator.                       *)
(*                                                                         *)
(* Representation of the code's floating-point quantities (all exact):     *)
(*   time stamps           integer ticks, TicksPerSecond ticks = 1 second  *)
(*   swingRatio, humanize* hundredths   (70  = 0.70)                       *)
(*   accentAmount          tenths       (157 = 15.7)                       *)
(*   beatsPerMinute        beats per minute, sampleRate in Hz              *)
(* Arithmetic is the real-number arithmetic of the double expressions in   *)
(* the source; the C++ conversions to int are modelled by TruncDiv.        *)
(***************************************************************************)
EXTENDS Integers, Sequences, FiniteSets, TLC

\* One second in ticks: a common multiple of both sample rates and of the
\* humanization grid, so that every time the code can produce is a whole tick.
TicksPerSecond == 320 * 44100

\* juce::Random is the linear congruential generator
\*   seed = (seed * 0x5deece66d + 11) & 0xffffffffffff
\* The model keeps its low bits only: state in 0 .. RngModulus-1.
\* (0x5deece66d mod 2^5 = 13, and 13 mod 4 = 1 with an odd increment keeps the
\* full period, as in the 48-bit original.)
RngModulus == 2 ^ 5

RngMultiplier == 13

RngIncrement == 11

\* ------------------------------------------------------------------------
\* Arithmetic helpers
\* ------------------------------------------------------------------------

\* C++ static_cast<int>(a / b) for b > 0: truncation toward zero.
TruncDiv(a, b) ==
    IF a >= 0 THEN a \div b ELSE -((-a) \div b)

\* std::round(a / b) for b > 0: nearest integer, halves away from zero.
RoundDiv(a, b) ==
    IF a >= 0 THEN (2 * a + b) \div (2 * b) ELSE -((2 * (-a) + b) \div (2 * b))

Abs(x) ==
    IF x >= 0 THEN x ELSE -x

\* juce::jlimit(lo, hi, v)
jlimit(lo, hi, v) ==
    IF v < lo THEN lo ELSE IF v > hi THEN hi ELSE v

\* ------------------------------------------------------------------------
\* juce::MidiMessage, as far as the transforms use it
\* ------------------------------------------------------------------------

\* A message: status kind, channel, the two data bytes and the time stamp.
MidiMessage(kind, channel, d1, d2, ts) ==
    [kind |-> kind, channel |-> channel, d1 |-> d1, d2 |-> d2, ts |-> ts]

\* MidiMessage::isNoteOnOrOff(), which also accepts note-offs.
isNoteOnOrOff(m) ==
    m.kind \in {"NoteOn", "NoteOff"}

\* MidiMessage::isNoteOn(): a 0x9n status with a non-zero velocity byte.
isNoteOn(m) ==
    m.kind = "NoteOn" /\ m.d2 # 0

\* MidiMessage::getVelocity(): the second data byte of a note on/off, else 0.
getVelocity(m) ==
    IF m.kind \in {"NoteOn", "NoteOff"} THEN m.d2 ELSE 0

\* A channel read that always answers channel 1.
getChannelFirst(m) ==
    1

getChannel(m) ==
    m.channel

getNoteNumber(m) ==
    m.d1

getTimeStamp(m) ==
    m.ts

\* static_cast<juce::uint8>(v)
ToUint8(v) ==
    v % 256

\* MidiMessage::noteOn(channel, noteNumber, uint8 velocity): a 0x9n message,
\* note masked to 7 bits, velocity limited to 127, time stamp 0.
noteOn(channel, noteNumber, velocity) ==
    MidiMessage("NoteOn", channel, noteNumber % 128,
                IF velocity > 127 THEN 127 ELSE velocity, 0)

setTimeStamp(m, ts) ==
    [m EXCEPT !.ts = ts]

\* ------------------------------------------------------------------------
\* Beat position
\* ------------------------------------------------------------------------

\* Length of one beat in ticks: 60 / beatsPerMinute seconds.
TicksPerBeat(beatsPerMinute) ==
    (60 * TicksPerSecond) \div beatsPerMinute

\* The fraction of a position counted in beats of twice the length, which puts
\* 0.5 s at 120 BPM half way between two beats.
BeatFractionOfDoubleBeat(ts, beatsPerMinute) ==
    (ts % (2 * TicksPerBeat(beatsPerMinute))) \div 2

\* positionInBeats - floor(positionInBeats), positionInBeats = ts * (bpm / 60),
\* as a numerator over TicksPerBeat(bpm).
BeatFraction(ts, beatsPerMinute) ==
    ts % TicksPerBeat(beatsPerMinute)

\* beatFraction > 0.4 && beatFraction < 0.6
InSwingWindowClosed(ts, beatsPerMinute) ==
    /\ 10 * BeatFraction(ts, beatsPerMinute) >= 4 * TicksPerBeat(beatsPerMinute)
    /\ 10 * BeatFraction(ts, beatsPerMinute) <= 6 * TicksPerBeat(beatsPerMinute)

InSwingWindow(ts, beatsPerMinute) ==
    /\ 10 * BeatFraction(ts, beatsPerMinute) > 4 * TicksPerBeat(beatsPerMinute)
    /\ 10 * BeatFraction(ts, beatsPerMinute) < 6 * TicksPerBeat(beatsPerMinute)

\* beatFraction < 0.1 || beatFraction > 0.9
InAccentWindowClosed(ts, beatsPerMinute) ==
    \/ 10 * BeatFraction(ts, beatsPerMinute) <= 1 * TicksPerBeat(beatsPerMinute)
    \/ 10 * BeatFraction(ts, beatsPerMinute) >= 9 * TicksPerBeat(beatsPerMinute)

InAccentWindow(ts, beatsPerMinute) ==
    \/ 10 * BeatFraction(ts, beatsPerMinute) < 1 * TicksPerBeat(beatsPerMinute)
    \/ 10 * BeatFraction(ts, beatsPerMinute) > 9 * TicksPerBeat(beatsPerMinute)

\* ------------------------------------------------------------------------
\* applySwing
\* ------------------------------------------------------------------------

\* A swing delay four times as long: (swingRatio - 0.5) * 1.0 beats.
SwingDelay400Fourfold(ts, style, beatsPerMinute) ==
    IF InSwingWindow(ts, beatsPerMinute) THEN 4 * (style.swingRatio - 50) ELSE 0

\* swingDelay in beats, times 400: (swingRatio - 0.5) * 0.25 inside the window,
\* 0.0 outside it.
SwingDelay400(ts, style, beatsPerMinute) ==
    IF InSwingWindow(ts, beatsPerMinute) THEN style.swingRatio - 50 ELSE 0

\* The delay with no conversion to whole samples: swingDelay * 60 / bpm seconds.
SwingDelayTicksExact(swingDelay400, beatsPerMinute, sampleRate) ==
    (swingDelay400 * TicksPerBeat(beatsPerMinute)) \div 400

\* int delayInSamples = static_cast<int>(swingDelay * sampleRate * 60.0 / bpm);
\* the time added is delayInSamples / sampleRate seconds.
SwingDelayTicks(swingDelay400, beatsPerMinute, sampleRate) ==
    TruncDiv(swingDelay400 * sampleRate * 60, 400 * beatsPerMinute)
        * (TicksPerSecond \div sampleRate)

applySwing(inputMessage, style, beatsPerMinute, sampleRate) ==
    IF ~isNoteOn(inputMessage) THEN inputMessage
    ELSE
      LET swingDelay400 == SwingDelay400(getTimeStamp(inputMessage), style, beatsPerMinute)
          newMessage == noteOn(getChannel(inputMessage),
                               getNoteNumber(inputMessage),
                               getVelocity(inputMessage))
      IN  setTimeStamp(newMessage,
                       getTimeStamp(inputMessage)
                         + SwingDelayTicks(swingDelay400, beatsPerMinute, sampleRate))

\* ------------------------------------------------------------------------
\* applyAccent
\* ------------------------------------------------------------------------

\* An accent that replaces the velocity instead of adding to it.
AccentedVelocityOverwrite(originalVelocity, style) ==
    TruncDiv(style.accentAmount, 10)

\* newVelocity = originalVelocity + static_cast<int>(style.accentAmount)
AccentedVelocity(originalVelocity, style) ==
    originalVelocity + TruncDiv(style.accentAmount, 10)

applyAccent(inputMessage, style, beatsPerMinute, sampleRate) ==
    IF ~isNoteOn(inputMessage) THEN inputMessage
    ELSE
      LET originalVelocity == getVelocity(inputMessage)
          newVelocity ==
              IF InAccentWindow(getTimeStamp(inputMessage), beatsPerMinute)
              THEN AccentedVelocity(originalVelocity, style)
              ELSE originalVelocity
          newMessage == noteOn(getChannel(inputMessage),
                               getNoteNumber(inputMessage),
                               ToUint8(jlimit(0, 127, newVelocity)))
      IN  setTimeStamp(newMessage, getTimeStamp(inputMessage))

\* ------------------------------------------------------------------------
\* juce::Random humanizationRandom
\* ------------------------------------------------------------------------

\* One step of the generator; the new state is also the value drawn.
NextRandom(state) ==
    (state * RngMultiplier + RngIncrement) % RngModulus

\* Random::nextInt(maxValue): the drawn value scaled into 0 .. maxValue-1.
nextInt(drawn, maxValue) ==
    (drawn * maxValue) \div RngModulus

\* ------------------------------------------------------------------------
\* applyHumanization
\* ------------------------------------------------------------------------

MaxTimingOffsetMs == 5

MaxVelocityOffset == 10

\* timingOffset in ticks for a drawn value:
\*   randomValue = nextDouble() * 2.0 - 1.0      (nextDouble = drawn / RngModulus)
\*   timingOffset = randomValue * maxTimingOffsetMs * humanizeTimingAmount / 1000.0
TimingOffset(drawn, style) ==
    TruncDiv((2 * drawn - RngModulus) * MaxTimingOffsetMs
                 * style.humanizeTimingAmount * (TicksPerSecond \div 1000),
             RngModulus * 100)

\* The velocity offset without the shift of the drawn value to -10 .. 10.
VelocityOffsetUncentred(drawn, style) ==
    TruncDiv(nextInt(drawn, MaxVelocityOffset * 2 + 1)
                 * style.humanizeVelocityAmount, 100)

\* The velocity offset rounded to the nearest integer.
VelocityOffsetRounded(drawn, style) ==
    RoundDiv((nextInt(drawn, MaxVelocityOffset * 2 + 1) - MaxVelocityOffset)
                 * style.humanizeVelocityAmount, 100)

\* randomValue = nextInt(maxVelocityOffset * 2 + 1) - maxVelocityOffset
\* velocityOffset = static_cast<int>(randomValue * humanizeVelocityAmount)
VelocityOffset(drawn, style) ==
    TruncDiv((nextInt(drawn, MaxVelocityOffset * 2 + 1) - MaxVelocityOffset)
                 * style.humanizeVelocityAmount, 100)

\* Whether the timing / the velocity branch draws from the generator.
DrawsTimingAlways(style) ==
    TRUE

DrawsTiming(style) ==
    style.humanizeTimingAmount > 0

DrawsVelocity(style) ==
    style.humanizeVelocityAmount > 0

\* The result is the returned message and the generator state left behind.
applyHumanization(inputMessage, style, beatsPerMinute, sampleRate, random) ==
    IF ~isNoteOn(inputMessage) THEN [message |-> inputMessage, random |-> random]
    ELSE
      LET originalVelocity == getVelocity(inputMessage)
          originalTimestamp == getTimeStamp(inputMessage)
          random1 == IF DrawsTiming(style) THEN NextRandom(random) ELSE random
          timingOffset == IF DrawsTiming(style) THEN TimingOffset(random1, style) ELSE 0
          random2 == IF DrawsVelocity(style) THEN NextRandom(random1) ELSE random1
          velocityOffset == IF DrawsVelocity(style) THEN VelocityOffset(random2, style) ELSE 0
          newTimestamp == originalTimestamp + timingOffset
          newVelocity == jlimit(0, 127, originalVelocity + velocityOffset)
          newMessage == noteOn(getChannel(inputMessage),
                               getNoteNumber(inputMessage),
                               ToUint8(newVelocity))
      IN  [message |-> setTimeStamp(newMessage, newTimestamp), random |-> random2]

\* ------------------------------------------------------------------------
\* State
\* ------------------------------------------------------------------------

VARIABLES
    testMessage,         \* the message handed to the transform under call
    testStyle,           \* the StyleParameters handed to the call
    testBpm,             \* beatsPerMinute handed to the call
    testSampleRate,      \* sampleRate handed to the call
    testBuffer,          \* the MidiBuffer handed to applyStyle, as it was on entry
    called,              \* which transform was called: "none" before the call
    result,              \* the message the call returned
    randomBefore,        \* generator state when the call was made / the event fetched
    humanizationRandom,  \* juce::Random humanizationRandom of each processor
    seed,                \* the seed last installed in each processor's generator
    currentSampleRate,   \* the sample rate prepareToPlay stored in each processor
    midiMessages,        \* applyStyle: the buffer argument of each processor
    processedBuffer,     \* applyStyle: the local juce::MidiBuffer processedBuffer
    iterator,            \* applyStyle: index of the event under the iterator
    processedMessage,    \* applyStyle: the local juce::MidiMessage processedMessage
    applied,             \* applyStyle: the transforms applied to that message so far
    pc,                  \* applyStyle: position of each processor in the function
    variant,             \* which PluginProcessor.cpp is built: src/ or src/backup_complex_plugin/
    pending,             \* the OSC messages the transport has still to deliver
    clock,               \* juce::Time::getMillisecondCounterHiRes(), counted in deliveries
    validStart,          \* oscMessageFifo: read position
    validEnd,            \* oscMessageFifo: write position
    oscMessages,         \* std::array<OSCMessage, 1024> oscMessages
    internalMessage,     \* oscMessageReceived: local internalMessage
    writeIndex,          \* oscMessageReceived: local index
    pcProducer,          \* oscMessageReceived: position of the OSC thread
    numMessages,         \* timerCallback / processOSCMessages: local numMessages
    drainI,              \* timerCallback / processOSCMessages: loop counter i
    readIndex,           \* timerCallback / processOSCMessages: local index
    pcDrain,             \* timerCallback / processOSCMessages: position in the loop
    drainCaller,         \* the function the running drain loop was entered from
    parameters,          \* the raw values of the plugin's AudioProcessorValueTreeState
    oscEnabled,          \* bool oscEnabled
    currentStyle,        \* processBlock: local StyleParameters currentStyle
    pcAudio,             \* processBlock: position of the audio thread
    hostBpm,             \* the tempo the host plays at
    published,           \* history: the messages whose slot the FIFO has made ready, in order
    consumed,            \* history: what each drained slot was due to hold and what was read
    liveSeen,            \* history: the parameter values live at some instant of the running block
    pcListener,          \* OSCListenerThread::run: position of the thread, "none" without one
    threadShouldExit,    \* juce::Thread exit flag of the listener thread
    receiverConnected,   \* oscReceiver.isConnected()
    listenerRegistered,  \* the listener thread is in oscReceiver's listener list
    pcStop,              \* stopOSCListener: position of the caller
    timerRunning         \* juce::Timer of the plugin is started

callVars ==
    <<testMessage, called, result>>

argVars ==
    <<testStyle, testBpm, testSampleRate, testBuffer>>

styleVars ==
    <<midiMessages, processedBuffer, iterator, processedMessage, applied, pc>>

fifoVars ==
    <<validStart, validEnd, oscMessages>>

producerVars ==
    <<pending, clock, internalMessage, writeIndex, pcProducer>>

drainVars ==
    <<numMessages, drainI, readIndex, pcDrain, drainCaller>>

parameterVars ==
    <<parameters, oscEnabled>>

audioVars ==
    <<currentStyle, pcAudio>>

historyVars ==
    <<published, consumed, liveSeen>>

listenerVars ==
    <<pcListener, threadShouldExit, receiverConnected, listenerRegistered, pcStop,
      timerRunning>>

pluginVars ==
    <<variant, fifoVars, producerVars, drainVars, parameterVars, audioVars, hostBpm,
      historyVars, listenerVars>>

vars ==
    <<testMessage, testStyle, testBpm, testSampleRate, testBuffer, called, result,
      randomBefore, humanizationRandom, seed, currentSampleRate, midiMessages,
      processedBuffer, iterator, processedMessage, applied, pc, pluginVars>>

\* The processors (processing contexts) of the model.
Processors == {1, 2}

\* ------------------------------------------------------------------------
\* Inputs of the transform calls
\* ------------------------------------------------------------------------

\* Time stamps in fortieths of a second: at 120 BPM the beat fractions
\* 0, 0.1, 0.4, 0.5, 0.6, 0.9, 0.95 and 0 again (one whole beat).
TimeSteps == {0, 2, 8, 10, 12, 18, 19, 20}

Seconds40(k) ==
    k * (TicksPerSecond \div 40)

NoteOnMessages ==
    {setTimeStamp(noteOn(1, 60, v), Seconds40(k)) : v \in {1, 10, 80, 120}, k \in TimeSteps}
      \cup {setTimeStamp(noteOn(3, 72, 90), Seconds40(k)) : k \in TimeSteps}

\* noteOff(1, 60, 80), controllerEvent(1, 74, 64), pitchWheel(1, 8192) and a
\* note-on status byte with velocity 0, which isNoteOn() does not accept.
OtherMessages ==
    {MidiMessage(m[1], 1, m[2], m[3], Seconds40(k)) :
        m \in {<<"NoteOff", 60, 80>>, <<"Controller", 74, 64>>,
               <<"PitchWheel", 0, 64>>, <<"NoteOn", 60, 0>>},
        k \in {0, 10}}

Messages == NoteOnMessages \cup OtherMessages

StyleParameters(swingRatio, accentAmount, humanizeTimingAmount, humanizeVelocityAmount) ==
    [swingRatio |-> swingRatio, accentAmount |-> accentAmount,
     humanizeTimingAmount |-> humanizeTimingAmount,
     humanizeVelocityAmount |-> humanizeVelocityAmount]

SwingRatios == {0, 50, 70, 100}

\* -200.0, 15.0, 15.7 and 300.0
AccentAmounts == {-2000, 150, 157, 3000}

HumanizeTimingAmounts == {0, 50, 100}

HumanizeVelocityAmounts == {0, 25, 30, 100}

\* The tests' style (0.7, 15, 0.5, 0.3) with each field varied over its values,
\* and every pair of humanize amounts.
Styles ==
    {StyleParameters(s, 150, 50, 30) : s \in SwingRatios}
      \cup {StyleParameters(70, a, 50, 30) : a \in AccentAmounts}
      \cup {StyleParameters(70, 150, t, v) : t \in HumanizeTimingAmounts, v \in HumanizeVelocityAmounts}

Tempos == {60, 120}

SampleRates == {44100, 48000}

RandomStates == 0 .. RngModulus - 1

NoMessage == MidiMessage("None", 0, 0, 0, 0)

\* ------------------------------------------------------------------------
\* StyleTransferPluginProcessor: OSC messages, the FIFO and the parameters
\* ------------------------------------------------------------------------

\* The two PluginProcessor.cpp of the repository.  The one in
\* backup_complex_plugin drains the queue in timerCallback, the one in src
\* drains it in processOSCMessages, called from processBlock.
TimerBuild == "backup_complex_plugin/PluginProcessor.cpp"

BlockBuild == "PluginProcessor.cpp"

\* Number of slots of oscMessageFifo and oscMessages (1024 in the source).
FifoSize == 2

Slots == 0 .. FifoSize - 1

\* juce::var: a double (in hundredths), a bool (1 or 0) or void.
VarDouble(v) == [type |-> "double", v |-> v]

VarBool(b) == [type |-> "bool", v |-> IF b THEN 1 ELSE 0]

VarVoid == [type |-> "void", v |-> 0]

\* A test that also takes a bool for a number, as juce::var converts one.
isDoubleOrBool(value) ==
    value.type \in {"double", "bool"}

isDouble(value) ==
    value.type = "double"

isBool(value) ==
    value.type = "bool"

\* struct OSCMessage {address, value, timestamp}; default-constructed: empty
\* address and void value.
OSCMessage(address, value, timestamp) ==
    [address |-> address, value |-> value, timestamp |-> timestamp]

DefaultOSCMessage == OSCMessage("", VarVoid, 0)

\* A juce::OSCMessage as the transport hands it over: the address pattern and
\* the first argument, if there is one.
OscPacket(address, type, v) ==
    [address |-> address, type |-> type, v |-> v]

\* oscMessageReceived, lines 350-364: the first argument as a juce::var.  A
\* float32 and an int32 both become a double, a bool stays a bool, anything
\* else (a string, no argument) leaves the value void.
DecodeArgument(packet) ==
    IF packet.type \in {"float32", "int32"} THEN VarDouble(packet.v)
    ELSE IF packet.type = "bool" THEN VarBool(packet.v = 1)
    ELSE VarVoid

\* juce::AbstractFifo ----------------------------------------------------

getNumReady(vs, ve) ==
    IF ve >= vs THEN ve - vs ELSE FifoSize - (vs - ve)

\* prepareToWrite(1, ...): one slot is always kept free; a request that does
\* not fit gets block size 0 and start index 0.
prepareToWrite(vs, ve) ==
    LET freeSpace == IF ve >= vs THEN FifoSize - (ve - vs) ELSE vs - ve
    IN  IF freeSpace - 1 <= 0
        THEN [startIndex1 |-> 0, blockSize1 |-> 0]
        ELSE [startIndex1 |-> ve, blockSize1 |-> 1]

prepareToRead(vs, ve) ==
    IF getNumReady(vs, ve) <= 0
    THEN [startIndex1 |-> 0, blockSize1 |-> 0]
    ELSE [startIndex1 |-> vs, blockSize1 |-> 1]

\* finishedWrite / finishedRead: the position moved on by n, wrapped.
Advance(position, n) ==
    IF position + n >= FifoSize THEN position + n - FifoSize ELSE position + n

\* Parameters ------------------------------------------------------------

\* The declared ranges: swingRatio and the humanize amounts 0.0 .. 1.0 in
\* hundredths, accentAmount 0.0 .. 50.0 in tenths.
RangeEnd(id) ==
    IF id = "accentAmount" THEN 500 ELSE 100

\* The parameter an OSC address sets, "" for an address no branch tests.
ParameterOfBlockBuild(address) ==
    CASE address = "/style/swing" -> "swingRatio"
      [] address = "/style/accent" -> "accentAmount"
      [] OTHER -> ""

ParameterOf(address) ==
    CASE address = "/style/swing" -> "swingRatio"
      [] address = "/style/accent" -> "accentAmount"
      [] address = "/style/humanizeTiming" -> "humanizeTimingAmount"
      [] address = "/style/humanizeVelocity" -> "humanizeVelocityAmount"
      [] OTHER -> ""

\* static_cast<float>(message.value) in the unit of the parameter.
InUnits(id, value) ==
    IF id = "accentAmount" THEN value.v \div 10 ELSE value.v

\* The raw values after construction: the declared defaults.
DefaultParameters ==
    [swingRatio |-> 50, accentAmount |-> 200, humanizeTimingAmount |-> 0,
     humanizeVelocityAmount |-> 0, oscEnabled |-> FALSE]

\* StyleParameters currentStyle; the member initialisers of the struct.
DefaultStyle == StyleParameters(50, 200, 0, 0)

\* The engine's tempo: double currentBPM = 120.0, assigned nowhere.
currentBPM == 120

\* The plugin after construction, with the deliveries the transport will make.
InitPlugin(build, deliveries) ==
    /\ variant = build
    /\ pending = deliveries
    /\ clock = 0
    /\ validStart = 0
    /\ validEnd = 0
    /\ oscMessages = [i \in Slots |-> DefaultOSCMessage]
    /\ internalMessage = DefaultOSCMessage
    /\ writeIndex = 0
    /\ pcProducer = "idle"
    /\ numMessages = 0
    /\ drainI = 0
    /\ readIndex = 0
    /\ pcDrain = "idle"
    /\ drainCaller = "none"
    /\ parameters = DefaultParameters
    /\ oscEnabled = FALSE
    /\ currentStyle = DefaultStyle
    /\ pcAudio = "idle"
    /\ hostBpm = currentBPM
    /\ published = <<>>
    /\ consumed = <<>>
    /\ liveSeen = {}
    /\ pcListener = "none"
    /\ threadShouldExit = FALSE
    /\ receiverConnected = FALSE
    /\ listenerRegistered = FALSE
    /\ pcStop = "idle"
    /\ timerRunning = (build = TimerBuild)

\* ------------------------------------------------------------------------
\* Calls of the three transforms on one message
\* ------------------------------------------------------------------------

InitTransform ==
    /\ testMessage \in Messages
    /\ testStyle \in Styles
    /\ testBpm \in Tempos
    /\ testSampleRate \in SampleRates
    /\ testBuffer = <<>>
    /\ called = "none"
    /\ result = NoMessage
    /\ seed \in [Processors -> RandomStates]
    /\ seed[2] = 0
    /\ humanizationRandom = seed
    /\ randomBefore = seed
    /\ currentSampleRate = [c \in Processors |-> 44100]
    /\ midiMessages = [c \in Processors |-> <<>>]
    /\ processedBuffer = [c \in Processors |-> <<>>]
    /\ iterator = [c \in Processors |-> 1]
    /\ processedMessage = [c \in Processors |-> NoMessage]
    /\ applied = [c \in Processors |-> <<>>]
    /\ pc = [c \in Processors |-> "off"]
    /\ InitPlugin(TimerBuild, <<>>)

CallSwing ==
    /\ called = "none"
    /\ called' = "applySwing"
    /\ result' = applySwing(testMessage, testStyle, testBpm, testSampleRate)
    /\ UNCHANGED <<pluginVars, testMessage, argVars, randomBefore, humanizationRandom, seed,
                   currentSampleRate, styleVars>>

CallAccent ==
    /\ called = "none"
    /\ called' = "applyAccent"
    /\ result' = applyAccent(testMessage, testStyle, testBpm, testSampleRate)
    /\ UNCHANGED <<pluginVars, testMessage, argVars, randomBefore, humanizationRandom, seed,
                   currentSampleRate, styleVars>>

CallHumanization ==
    /\ called = "none"
    /\ called' = "applyHumanization"
    /\ LET r == applyHumanization(testMessage, testStyle, testBpm, testSampleRate,
                                  humanizationRandom[1])
       IN  /\ result' = r.message
           /\ humanizationRandom' = [humanizationRandom EXCEPT ![1] = r.random]
    /\ UNCHANGED <<pluginVars, testMessage, argVars, randomBefore, seed, currentSampleRate,
                   styleVars>>

NextTransform ==
    \/ CallSwing
    \/ CallAccent
    \/ CallHumanization

SpecTransform == InitTransform /\ [][NextTransform]_vars

\* ------------------------------------------------------------------------
\* juce::MidiBuffer: events kept in order of sample position
\* ------------------------------------------------------------------------

\* One event of a MidiBuffer: the bytes of the message and its sample position.
\* The buffer does not store the message's time stamp.  id is the index the
\* event had in the buffer handed to applyStyle; it is not program state.
BufferEvent(m, samplePosition, id) ==
    [kind |-> m.kind, channel |-> m.channel, d1 |-> m.d1, d2 |-> m.d2,
     samplePosition |-> samplePosition, id |-> id]

\* Iterator::getNextEvent(message, samplePosition): the message is rebuilt from
\* the bytes with the sample position as its time stamp, which the transforms
\* then read as seconds.
getNextEvent(e) ==
    MidiMessage(e.kind, e.channel, e.d1, e.d2, e.samplePosition * TicksPerSecond)

\* MidiBuffer::addEvent: inserted after every event at or before the position.
addEvent(buffer, e) ==
    LET later == {i \in 1 .. Len(buffer) : buffer[i].samplePosition > e.samplePosition}
        at    == IF later = {} THEN Len(buffer) + 1
                 ELSE CHOOSE i \in later : \A j \in later : i <= j
    IN  SubSeq(buffer, 1, at - 1) \o <<e>> \o SubSeq(buffer, at, Len(buffer))

\* MidiBuffer::addEvents: the events of otherBuffer from startSample on
\* (numSamples < 0: to the end) are added in order, shifted by sampleDeltaToAdd.
\* Events before startSample are passed over.
RECURSIVE addEvents(_, _, _, _, _)
addEvents(buffer, otherBuffer, startSample, numSamples, sampleDeltaToAdd) ==
    IF otherBuffer = <<>> THEN buffer
    ELSE LET e == Head(otherBuffer)
         IN  IF e.samplePosition < startSample
             THEN addEvents(buffer, Tail(otherBuffer), startSample, numSamples, sampleDeltaToAdd)
             ELSE IF numSamples >= 0 /\ e.samplePosition >= startSample + numSamples
             THEN buffer
             ELSE addEvents(addEvent(buffer, [e EXCEPT !.samplePosition = @ + sampleDeltaToAdd]),
                            Tail(otherBuffer), startSample, numSamples, sampleDeltaToAdd)

\* static_cast<int>(processedMessage.getTimeStamp() * sampleRate)
SampleOffset(ts, sampleRate) ==
    TruncDiv(ts, TicksPerSecond \div sampleRate)

\* ------------------------------------------------------------------------
\* applyStyle
\* ------------------------------------------------------------------------

\* The transforms in the order applyStyle calls them.
TransformOrderHumanizeBeforeAccent ==
    <<"applySwing", "applyHumanization", "applyAccent">>

TransformOrder ==
    <<"applySwing", "applyAccent", "applyHumanization">>

\* The position after transform number n of the chain.
AfterTransform(n) ==
    IF n < Len(TransformOrder) THEN TransformOrder[n + 1] ELSE "addEvent"

\* The generator a processor draws from: its own member humanizationRandom.
GeneratorShared(c) ==
    1

Generator(c) ==
    c

\* Largest number of events in a buffer, and largest sample position of one.
MaxEvents == 2

MaxSamplePosition == 2

\* Note-ons at velocity 80 and 120 and a note-off, bytes only.
BufferMessages ==
    {noteOn(1, 60, 80), noteOn(1, 62, 120), MidiMessage("NoteOff", 1, 60, 0, 0)}

\* The buffers a host can hand over: up to MaxEvents events in order of
\* sample position, numbered in that order.
RECURSIVE BuffersOfLength(_)
BuffersOfLength(n) ==
    IF n = 0 THEN {<<>>}
    ELSE {Append(b, BufferEvent(m, p, n)) :
            b \in BuffersOfLength(n - 1), m \in BufferMessages, p \in 0 .. MaxSamplePosition}

IsSortedBuffer(buffer) ==
    \A i \in 1 .. Len(buffer) - 1 : buffer[i].samplePosition <= buffer[i + 1].samplePosition

MidiBuffers ==
    {b \in UNION {BuffersOfLength(n) : n \in 1 .. MaxEvents} : IsSortedBuffer(b)}

\* The style that asks for no change: swingRatio 0.5, nothing else.
NeutralStyle ==
    StyleParameters(50, 0, 0, 0)

\* The tests' style with and without humanization, full humanization, and
\* the neutral style.
BlockStyles ==
    {StyleParameters(70, 150, 0, 0), StyleParameters(70, 150, 50, 30),
     StyleParameters(70, 150, 100, 100), NeutralStyle}

\* At 90 BPM sample position 1, read as one second, is beat fraction 0.5.
BlockTempos == {90, 120}

BlockSampleRates == {44100}

\* juce::Time::currentTimeMillis() truncated to int, as a generator state.
Seeds == {0, 9, 16, 27}

\* The buffers for two processors side by side: note-ons at position 0.
PairBuffers ==
    {b \in MidiBuffers :
        \A i \in 1 .. Len(b) : b[i].kind = "NoteOn" /\ b[i].samplePosition = 0}

PairStyles ==
    {StyleParameters(70, 150, 100, 100)}

PairTempos == {120}

\* A processor after construction, about to be handed testBuffer.
InitProcessors(active) ==
    /\ testMessage = NoMessage
    /\ called = "applyStyle"
    /\ result = NoMessage
    /\ seed \in [Processors -> Seeds]
    /\ \A c \in Processors \ active : seed[c] = 0
    /\ humanizationRandom = seed
    /\ randomBefore = [c \in Processors |-> 0]
    /\ currentSampleRate = [c \in Processors |-> 44100]
    /\ midiMessages = [c \in Processors |-> testBuffer]
    /\ processedBuffer = [c \in Processors |-> <<>>]
    /\ iterator = [c \in Processors |-> 1]
    /\ processedMessage = [c \in Processors |-> NoMessage]
    /\ applied = [c \in Processors |-> <<>>]
    /\ pc = [c \in Processors |-> IF c \in active THEN "idle" ELSE "off"]
    /\ InitPlugin(TimerBuild, <<>>)

InitStyle ==
    /\ testBuffer \in MidiBuffers
    /\ testStyle \in BlockStyles
    /\ testBpm \in BlockTempos
    /\ testSampleRate \in BlockSampleRates
    /\ InitProcessors({1})

InitPair ==
    /\ testBuffer \in PairBuffers
    /\ testStyle \in PairStyles
    /\ testBpm \in PairTempos
    /\ testSampleRate \in BlockSampleRates
    /\ InitProcessors(Processors)

\* prepareToPlay: stores the sample rate and re-seeds the generator from the clock.
prepareToPlay(c) ==
    /\ pc[c] = "idle"
    /\ \E sampleRate \in BlockSampleRates :
          currentSampleRate' = [currentSampleRate EXCEPT ![c] = sampleRate]
    /\ \E s \in Seeds :
          /\ humanizationRandom' = [humanizationRandom EXCEPT ![Generator(c)] = s]
          /\ seed' = [seed EXCEPT ![c] = s]
    /\ UNCHANGED <<pluginVars, callVars, argVars, randomBefore, styleVars>>

\* applyStyle is entered: processedBuffer is empty, the iterator at the start.
EnterApplyStyle(c) ==
    /\ pc[c] = "idle"
    /\ processedBuffer' = [processedBuffer EXCEPT ![c] = <<>>]
    /\ iterator' = [iterator EXCEPT ![c] = 1]
    /\ pc' = [pc EXCEPT ![c] = "getNextEvent"]
    /\ UNCHANGED <<pluginVars, callVars, argVars, randomBefore, humanizationRandom, seed,
                   currentSampleRate, midiMessages, processedMessage, applied>>

\* while (iterator.getNextEvent(message, samplePosition)) ... processedMessage = message
GetNextEvent(c) ==
    /\ pc[c] = "getNextEvent"
    /\ IF iterator[c] <= Len(midiMessages[c])
       THEN /\ processedMessage' =
                  [processedMessage EXCEPT ![c] = getNextEvent(midiMessages[c][iterator[c]])]
            /\ applied' = [applied EXCEPT ![c] = <<>>]
            /\ randomBefore' = [randomBefore EXCEPT ![c] = humanizationRandom[Generator(c)]]
            /\ pc' = [pc EXCEPT ![c] = TransformOrder[1]]
       ELSE /\ pc' = [pc EXCEPT ![c] = "replace"]
            /\ UNCHANGED <<processedMessage, applied, randomBefore>>
    /\ UNCHANGED <<pluginVars, callVars, argVars, humanizationRandom, seed, currentSampleRate,
                   midiMessages, processedBuffer, iterator>>

StepSwing(c) ==
    /\ pc[c] = "applySwing"
    /\ processedMessage' =
          [processedMessage EXCEPT
              ![c] = applySwing(processedMessage[c], testStyle, testBpm, testSampleRate)]
    /\ applied' = [applied EXCEPT ![c] = Append(@, "applySwing")]
    /\ pc' = [pc EXCEPT ![c] = AfterTransform(Len(applied[c]) + 1)]
    /\ UNCHANGED <<pluginVars, callVars, argVars, randomBefore, humanizationRandom, seed,
                   currentSampleRate, midiMessages, processedBuffer, iterator>>

StepAccent(c) ==
    /\ pc[c] = "applyAccent"
    /\ processedMessage' =
          [processedMessage EXCEPT
              ![c] = applyAccent(processedMessage[c], testStyle, testBpm, testSampleRate)]
    /\ applied' = [applied EXCEPT ![c] = Append(@, "applyAccent")]
    /\ pc' = [pc EXCEPT ![c] = AfterTransform(Len(applied[c]) + 1)]
    /\ UNCHANGED <<pluginVars, callVars, argVars, randomBefore, humanizationRandom, seed,
                   currentSampleRate, midiMessages, processedBuffer, iterator>>

StepHumanization(c) ==
    /\ pc[c] = "applyHumanization"
    /\ LET r == applyHumanization(processedMessage[c], testStyle, testBpm, testSampleRate,
                                  humanizationRandom[Generator(c)])
       IN  /\ processedMessage' = [processedMessage EXCEPT ![c] = r.message]
           /\ humanizationRandom' = [humanizationRandom EXCEPT ![Generator(c)] = r.random]
    /\ applied' = [applied EXCEPT ![c] = Append(@, "applyHumanization")]
    /\ pc' = [pc EXCEPT ![c] = AfterTransform(Len(applied[c]) + 1)]
    /\ UNCHANGED <<pluginVars, callVars, argVars, randomBefore, seed, currentSampleRate,
                   midiMessages, processedBuffer, iterator>>

\* processedBuffer.addEvent(processedMessage, static_cast<int>(time stamp * sampleRate))
StepAddEvent(c) ==
    /\ pc[c] = "addEvent"
    /\ processedBuffer' =
          [processedBuffer EXCEPT
              ![c] = addEvent(@, BufferEvent(processedMessage[c],
                                             SampleOffset(processedMessage[c].ts, testSampleRate),
                                             midiMessages[c][iterator[c]].id))]
    /\ iterator' = [iterator EXCEPT ![c] = @ + 1]
    /\ pc' = [pc EXCEPT ![c] = "getNextEvent"]
    /\ UNCHANGED <<pluginVars, callVars, argVars, randomBefore, humanizationRandom, seed,
                   currentSampleRate, midiMessages, processedMessage, applied>>

\* midiMessages.clear(); midiMessages.addEvents(processedBuffer, 0, -1, 0);
ReplaceBuffer(c) ==
    /\ pc[c] = "replace"
    /\ midiMessages' = [midiMessages EXCEPT ![c] = addEvents(<<>>, processedBuffer[c], 0, -1, 0)]
    /\ pc' = [pc EXCEPT ![c] = "done"]
    /\ UNCHANGED <<pluginVars, callVars, argVars, randomBefore, humanizationRandom, seed,
                   currentSampleRate, processedBuffer, iterator, processedMessage, applied>>

ProcessorStep(c) ==
    \/ prepareToPlay(c)
    \/ EnterApplyStyle(c)
    \/ GetNextEvent(c)
    \/ StepSwing(c)
    \/ StepAccent(c)
    \/ StepHumanization(c)
    \/ StepAddEvent(c)
    \/ ReplaceBuffer(c)

NextStyle ==
    ProcessorStep(1)

NextPair ==
    \E c \in Processors : ProcessorStep(c)

\* One processor runs applyStyle on the buffer.
SpecStyle == InitStyle /\ [][NextStyle]_vars

\* Two processors run applyStyle on the same buffer, style, tempo and rate.
SpecPair == InitPair /\ [][NextPair]_vars

\* ------------------------------------------------------------------------
\* The OSC queue: oscMessageReceived fills it, the drain loop empties it
\* ------------------------------------------------------------------------

engineVars ==
    <<callVars, argVars, randomBefore, humanizationRandom, seed, currentSampleRate,
      styleVars>>

\* The value an accepted number is stored as: timerCallback clamps it to the
\* declared range, handleOSCMessage hands it to the setter as it is.
StoredValue(build, id, value) ==
    IF build = TimerBuild
    THEN jlimit(0, RangeEnd(id), InUnits(id, value))
    ELSE InUnits(id, value)

\* The branch of the if-chain a message takes: the parameter it sets, "enable"
\* for /style/enable with a bool, "" when no branch stores anything.
BranchOf(build, message) ==
    LET id == IF build = TimerBuild THEN ParameterOf(message.address)
              ELSE ParameterOfBlockBuild(message.address)
    IN  IF id # ""
        THEN IF isDouble(message.value) THEN id ELSE ""
        ELSE IF message.address = "/style/enable" /\ isBool(message.value)
             THEN "enable"
             ELSE ""

\* The raw parameter values after the message is handled.
HandledParameters(build, message, params) ==
    LET branch == BranchOf(build, message)
    IN  IF branch = "" THEN params
        ELSE IF branch = "enable"
             THEN [params EXCEPT !.oscEnabled = (message.value.v = 1)]
             ELSE [params EXCEPT ![branch] = StoredValue(build, branch, message.value)]

\* The member oscEnabled after the message is handled: only setOSCEnabled,
\* which handleOSCMessage calls, assigns it; timerCallback sets the parameter.
HandledOscEnabled(build, message, member) ==
    IF build = BlockBuild /\ BranchOf(build, message) = "enable"
    THEN message.value.v = 1
    ELSE member

\* The four style values of the raw parameters.
LiveStyle(params) ==
    StyleParameters(params.swingRatio, params.accentAmount,
                    params.humanizeTimingAmount, params.humanizeVelocityAmount)

\* The index oscMessageFifo.write(1) yields when the ring has no room: the
\* start index 0 of an empty block; the test of line 368 also provides for an
\* index outside the array.
FailedWriteIndexes == {0, -1}

\* oscMessageReceived up to the test of the index: the message is converted
\* and write(1) moves validEnd on, which makes the slot ready to read.
OscMessageReceived ==
    /\ pcProducer = "idle"
    /\ pending # <<>>
    /\ LET packet == Head(pending)
           message == OSCMessage(packet.address, DecodeArgument(packet), clock + 1)
           block == prepareToWrite(validStart, validEnd)
       IN  /\ validEnd' = Advance(validEnd, block.blockSize1)
           /\ \E index \in IF block.blockSize1 = 1 THEN {block.startIndex1}
                           ELSE FailedWriteIndexes :
                 IF index >= 0 /\ index < FifoSize
                 THEN /\ internalMessage' = message
                      /\ writeIndex' = index
                      /\ pcProducer' = "storeAddress"
                 ELSE /\ internalMessage' = DefaultOSCMessage
                      /\ writeIndex' = 0
                      /\ pcProducer' = "idle"
           /\ published' = IF block.blockSize1 = 1 THEN Append(published, message)
                           ELSE published
    /\ pending' = Tail(pending)
    /\ clock' = clock + 1
    /\ UNCHANGED <<engineVars, variant, validStart, oscMessages, drainVars, parameterVars,
                   audioVars, hostBpm, consumed, liveSeen, listenerVars>>

\* oscMessages[index] = internalMessage, member by member: the address ...
StoreAddress ==
    /\ pcProducer = "storeAddress"
    /\ oscMessages' = [oscMessages EXCEPT ![writeIndex].address = internalMessage.address]
    /\ pcProducer' = "storeValue"
    /\ UNCHANGED <<engineVars, variant, validStart, validEnd, pending, clock, internalMessage,
                   writeIndex, drainVars, parameterVars, audioVars, hostBpm, historyVars,
                   listenerVars>>

\* ... then the value and the time stamp; oscMessageReceived returns and its
\* locals are gone.
StoreValue ==
    /\ pcProducer = "storeValue"
    /\ oscMessages' = [oscMessages EXCEPT ![writeIndex].value = internalMessage.value,
                                          ![writeIndex].timestamp = internalMessage.timestamp]
    /\ internalMessage' = DefaultOSCMessage
    /\ writeIndex' = 0
    /\ pcProducer' = "idle"
    /\ UNCHANGED <<engineVars, variant, validStart, validEnd, pending, clock, drainVars,
                   parameterVars, audioVars, hostBpm, historyVars, listenerVars>>

\* int numMessages = oscMessageFifo.getNumReady(); the loop starts at i = 0.
StartDrain(caller) ==
    /\ pcDrain = "idle"
    /\ numMessages' = getNumReady(validStart, validEnd)
    /\ drainI' = 0
    /\ pcDrain' = "loop"
    /\ drainCaller' = caller

\* The timer started by the constructor fires.
timerCallback ==
    /\ variant = TimerBuild
    /\ timerRunning
    /\ StartDrain("timerCallback")
    /\ UNCHANGED <<engineVars, variant, fifoVars, producerVars, readIndex, parameterVars,
                   audioVars, hostBpm, historyVars, listenerVars>>

\* int index = oscMessageFifo.read(1): the index of the oldest ready slot;
\* validStart moves on, which gives the slot back to the writer.
DrainRead ==
    /\ pcDrain = "loop"
    /\ drainI < numMessages
    /\ LET block == prepareToRead(validStart, validEnd)
       IN  /\ readIndex' = block.startIndex1
           /\ validStart' = Advance(validStart, block.blockSize1)
    /\ pcDrain' = "use"
    /\ UNCHANGED <<engineVars, variant, validEnd, oscMessages, producerVars, numMessages,
                   drainI, drainCaller, parameterVars, audioVars, hostBpm, historyVars,
                   listenerVars>>

\* The body of the loop on oscMessages[index]: the if-chain of timerCallback,
\* or handleOSCMessage.  The log keeps the message read next to the message
\* that was enqueued at this place of the order.
DrainUse ==
    /\ pcDrain = "use"
    /\ LET message == oscMessages[readIndex]
           place == Len(consumed) + 1
           expected == IF place <= Len(published) THEN published[place]
                       ELSE DefaultOSCMessage
       IN  /\ parameters' = HandledParameters(variant, message, parameters)
           /\ oscEnabled' = HandledOscEnabled(variant, message, oscEnabled)
           /\ consumed' = Append(consumed, [expected |-> expected, got |-> message])
    /\ liveSeen' = IF pcAudio # "idle" THEN liveSeen \cup {LiveStyle(parameters')}
                   ELSE liveSeen
    /\ drainI' = drainI + 1
    /\ readIndex' = 0
    /\ pcDrain' = "loop"
    /\ UNCHANGED <<engineVars, variant, fifoVars, producerVars, numMessages, drainCaller,
                   currentStyle, pcAudio, hostBpm, published, listenerVars>>

\* i has reached numMessages: the loop is left, its locals are gone and the
\* caller goes on.
DrainEnd ==
    /\ pcDrain = "loop"
    /\ drainI >= numMessages
    /\ numMessages' = 0
    /\ drainI' = 0
    /\ pcDrain' = "idle"
    /\ drainCaller' = "none"
    /\ pcAudio' = IF drainCaller = "processBlock" THEN "readSwing" ELSE pcAudio
    /\ UNCHANGED <<engineVars, variant, fifoVars, producerVars, readIndex, parameterVars,
                   currentStyle, hostBpm, historyVars, listenerVars>>

\* The deliveries of the queue scenario: a swing value, a swing value out of
\* range and an accent value.
QueuePackets ==
    {OscPacket("/style/swing", "float32", 30),
     OscPacket("/style/swing", "float32", 150),
     OscPacket("/style/accent", "float32", 3000)}

\* Largest number of deliveries in the queue scenario.
MaxDeliveries == 3

RECURSIVE DeliveriesOfLength(_, _)
DeliveriesOfLength(packets, n) ==
    IF n = 0 THEN {<<>>}
    ELSE {Append(d, p) : d \in DeliveriesOfLength(packets, n - 1), p \in packets}

Deliveries(packets, most) ==
    UNION {DeliveriesOfLength(packets, n) : n \in 0 .. most}

\* The engine side at rest while the plugin's queue is exercised.
InitEngineAtRest ==
    /\ testBuffer = <<>>
    /\ testStyle = StyleParameters(50, 200, 0, 0)
    /\ testBpm = currentBPM
    /\ testSampleRate = 44100
    /\ testMessage = NoMessage
    /\ called = "none"
    /\ result = NoMessage
    /\ seed = [c \in Processors |-> 0]
    /\ humanizationRandom = seed
    /\ randomBefore = seed
    /\ currentSampleRate = [c \in Processors |-> 44100]
    /\ midiMessages = [c \in Processors |-> <<>>]
    /\ processedBuffer = [c \in Processors |-> <<>>]
    /\ iterator = [c \in Processors |-> 1]
    /\ processedMessage = [c \in Processors |-> NoMessage]
    /\ applied = [c \in Processors |-> <<>>]
    /\ pc = [c \in Processors |-> "off"]

InitQueue ==
    /\ InitEngineAtRest
    /\ \E deliveries \in Deliveries(QueuePackets, MaxDeliveries) :
          InitPlugin(TimerBuild, deliveries)

NextQueue ==
    \/ OscMessageReceived
    \/ StoreAddress
    \/ StoreValue
    \/ timerCallback
    \/ DrainRead
    \/ DrainUse
    \/ DrainEnd

\* The transport delivers messages while the timer drains the queue.
SpecQueue == InitQueue /\ [][NextQueue]_vars

\* ------------------------------------------------------------------------
\* processBlock of the plugin: the parameter copy and the call of the engine
\* ------------------------------------------------------------------------

\* styleEngine.setStyleParameters(newStyle) puts each value into the engine's
\* own parameter tree through convertTo0to1, which clamps it to the range;
\* styleEngine.processBlock reads the style back from that tree.
EngineStyle(newStyle) ==
    [id \in DOMAIN newStyle |-> jlimit(0, RangeEnd(id), newStyle[id])]

\* The buffer the host hands to processBlock: one note-on at sample 0.
BlockBuffer == <<BufferEvent(noteOn(1, 60, 80), 0, 1)>>

\* processBlock is entered.  src/PluginProcessor.cpp first calls
\* processOSCMessages; backup_complex_plugin goes straight to the parameters.
processBlock ==
    /\ pcAudio = "idle"
    /\ pcStop = "idle"
    /\ currentStyle' = DefaultStyle
    /\ liveSeen' = {LiveStyle(parameters)}
    /\ IF variant = BlockBuild
       THEN /\ StartDrain("processBlock")
            /\ pcAudio' = "processOSCMessages"
            /\ UNCHANGED readIndex
       ELSE /\ pcAudio' = "readSwing"
            /\ UNCHANGED drainVars
    /\ UNCHANGED <<engineVars, variant, fifoVars, producerVars, parameterVars, hostBpm,
                   published, consumed, listenerVars>>

\* currentStyle.swingRatio = *parameters.getRawParameterValue(SWING_RATIO_ID);
ReadSwingRatio ==
    /\ pcAudio = "readSwing"
    /\ currentStyle' = [currentStyle EXCEPT !.swingRatio = parameters.swingRatio]
    /\ pcAudio' = "readAccent"
    /\ UNCHANGED <<engineVars, variant, fifoVars, producerVars, drainVars, parameterVars,
                   hostBpm, historyVars, listenerVars>>

\* currentStyle.accentAmount = ...; the last read of src/PluginProcessor.cpp.
ReadAccentAmount ==
    /\ pcAudio = "readAccent"
    /\ currentStyle' = [currentStyle EXCEPT !.accentAmount = parameters.accentAmount]
    /\ pcAudio' = IF variant = BlockBuild THEN "styleEngine" ELSE "readHumanizeTiming"
    /\ UNCHANGED <<engineVars, variant, fifoVars, producerVars, drainVars, parameterVars,
                   hostBpm, historyVars, listenerVars>>

ReadHumanizeTiming ==
    /\ pcAudio = "readHumanizeTiming"
    /\ currentStyle' =
          [currentStyle EXCEPT !.humanizeTimingAmount = parameters.humanizeTimingAmount]
    /\ pcAudio' = "readHumanizeVelocity"
    /\ UNCHANGED <<engineVars, variant, fifoVars, producerVars, drainVars, parameterVars,
                   hostBpm, historyVars, listenerVars>>

ReadHumanizeVelocity ==
    /\ pcAudio = "readHumanizeVelocity"
    /\ currentStyle' =
          [currentStyle EXCEPT !.humanizeVelocityAmount = parameters.humanizeVelocityAmount]
    /\ pcAudio' = "styleEngine"
    /\ UNCHANGED <<engineVars, variant, fifoVars, producerVars, drainVars, parameterVars,
                   hostBpm, historyVars, listenerVars>>

\* styleEngine.setStyleParameters(currentStyle); styleEngine.processBlock(...)
\* up to its call applyStyle(midiMessages, currentStyle, currentBPM,
\* currentSampleRate), whose arguments are recorded.
CallStyleEngine ==
    /\ pcAudio = "styleEngine"
    /\ testStyle' = EngineStyle(currentStyle)
    /\ testBpm' = currentBPM
    /\ testSampleRate' = currentSampleRate[1]
    /\ testBuffer' = BlockBuffer
    /\ midiMessages' = [midiMessages EXCEPT ![1] = BlockBuffer]
    /\ processedBuffer' = [processedBuffer EXCEPT ![1] = <<>>]
    /\ iterator' = [iterator EXCEPT ![1] = 1]
    /\ pc' = [pc EXCEPT ![1] = "getNextEvent"]
    /\ pcAudio' = "applyStyle"
    /\ UNCHANGED <<callVars, randomBefore, humanizationRandom, seed, currentSampleRate,
                   processedMessage, applied, variant, fifoVars, producerVars, drainVars,
                   parameterVars, currentStyle, hostBpm, historyVars, listenerVars>>

\* applyStyle has returned and processBlock returns to the host.
ProcessBlockReturn ==
    /\ pcAudio = "applyStyle"
    /\ pc[1] = "done"
    /\ pc' = [pc EXCEPT ![1] = "off"]
    /\ currentStyle' = DefaultStyle
    /\ pcAudio' = "idle"
    /\ UNCHANGED <<callVars, argVars, randomBefore, humanizationRandom, seed,
                   currentSampleRate, midiMessages, processedBuffer, iterator,
                   processedMessage, applied, variant, fifoVars, producerVars, drainVars,
                   parameterVars, hostBpm, historyVars, listenerVars>>

\* The host's transport changes tempo, between two blocks.
HostTempoChange ==
    /\ pcAudio = "idle"
    /\ \E bpm \in BlockTempos \ {hostBpm} : hostBpm' = bpm
    /\ UNCHANGED <<engineVars, variant, fifoVars, producerVars, drainVars, parameterVars,
                   audioVars, historyVars, listenerVars>>

\* The deliveries of the parameter scenario: values in and out of range, a
\* bool and no argument for a number, a number for the bool, an address no
\* branch tests.
ParameterPackets ==
    {OscPacket("/style/swing", "float32", 30),
     OscPacket("/style/swing", "float32", 150),
     OscPacket("/style/swing", "bool", 1),
     OscPacket("/style/swing", "none", 0),
     OscPacket("/style/accent", "float32", 300),
     OscPacket("/style/accent", "int32", 6000),
     OscPacket("/style/humanizeTiming", "float32", -50),
     OscPacket("/style/enable", "bool", 1),
     OscPacket("/style/enable", "float32", 100),
     OscPacket("/style/tempo", "float32", 90)}

\* No delivery, one delivery, or two in a row.
ParameterDeliveries ==
    {<<>>} \cup {<<p>> : p \in ParameterPackets}
           \cup {<<p, q>> : p, q \in ParameterPackets}

InitParameters ==
    /\ InitEngineAtRest
    /\ \E build \in {TimerBuild, BlockBuild}, deliveries \in ParameterDeliveries :
          InitPlugin(build, deliveries)

NextParameters ==
    \/ OscMessageReceived
    \/ StoreAddress
    \/ StoreValue
    \/ timerCallback
    \/ DrainRead
    \/ DrainUse
    \/ DrainEnd
    \/ processBlock
    \/ ReadSwingRatio
    \/ ReadAccentAmount
    \/ ReadHumanizeTiming
    \/ ReadHumanizeVelocity
    \/ CallStyleEngine
    \/ GetNextEvent(1)
    \/ StepSwing(1)
    \/ StepAccent(1)
    \/ StepHumanization(1)
    \/ StepAddEvent(1)
    \/ ReplaceBuffer(1)
    \/ ProcessBlockReturn
    \/ HostTempoChange

\* Both builds of the plugin with the transport delivering, the queue being
\* drained and the host calling processBlock and changing tempo.
SpecParameters == InitParameters /\ [][NextParameters]_vars

\* ------------------------------------------------------------------------
\* The OSC listener thread and its shutdown
\* ------------------------------------------------------------------------

engineAndQueueVars ==
    <<engineVars, variant, fifoVars, producerVars, audioVars, hostBpm, historyVars>>

\* The cleanup of run() without its disconnect.
ConnectedAfterCleanupKept(connected) == connected

\* The cleanup of run(): if (isConnected()) disconnect().
ConnectedAfterCleanup(connected) == FALSE

\* setOSCEnabled(enabled), called by the owner of the processor.
setOSCEnabled ==
    /\ pcStop = "idle"
    /\ \E enabled \in BOOLEAN :
          /\ enabled # oscEnabled
          /\ oscEnabled' = enabled
          /\ parameters' = [parameters EXCEPT !.oscEnabled = enabled]
    /\ UNCHANGED <<engineAndQueueVars, drainVars, listenerVars>>

\* The states a host can hand to setStateInformation: the default values
\* saved with OSC control off or on.
RestoredStates ==
    {[DefaultParameters EXCEPT !.oscEnabled = enabled] : enabled \in BOOLEAN}

\* setStateInformation: parameters.replaceState(...) puts the saved values
\* into the parameters; the member oscEnabled is not assigned.
setStateInformation ==
    /\ pcStop = "idle"
    /\ \E state \in RestoredStates :
          /\ state # parameters
          /\ parameters' = state
    /\ UNCHANGED <<engineAndQueueVars, drainVars, oscEnabled, listenerVars>>

\* while (!threadShouldExit()): one poll of the exit flag.
RunPoll ==
    /\ pcListener = "loop"
    /\ pcListener' = IF threadShouldExit THEN "cleanup" ELSE "body"
    /\ UNCHANGED <<engineAndQueueVars, drainVars, parameterVars, threadShouldExit,
                   receiverConnected, listenerRegistered, pcStop, timerRunning>>

\* A connect that is tried whether or not the receiver is connected.
NeedsConnectAlways(connected) == TRUE

\* if (!owner.oscReceiver.isConnected())
NeedsConnect(connected) == ~connected

\* The body of the loop before the connect: wait(100) with OSC disabled; with
\* the receiver connected, addListener and wait(10); else on to the connect.
RunBody ==
    /\ pcListener = "body"
    /\ IF ~oscEnabled
       THEN /\ pcListener' = "wait(100)"
            /\ UNCHANGED listenerRegistered
       ELSE IF NeedsConnect(receiverConnected)
            THEN /\ pcListener' = "connect"
                 /\ UNCHANGED listenerRegistered
            ELSE /\ listenerRegistered' = TRUE
                 /\ pcListener' = "wait(10)"
    /\ UNCHANGED <<engineAndQueueVars, drainVars, parameterVars, threadShouldExit,
                   receiverConnected, pcStop, timerRunning>>

\* owner.oscReceiver.connect(owner.oscPort): the port can be bound or not.
\* Connected: addListener and wait(10).  Not connected: wait(1000).
RunConnect ==
    /\ pcListener = "connect"
    /\ \E connects \in BOOLEAN :
          IF connects
          THEN /\ receiverConnected' = TRUE
               /\ listenerRegistered' = TRUE
               /\ pcListener' = "wait(10)"
          ELSE /\ pcListener' = "wait(1000)"
               /\ UNCHANGED <<receiverConnected, listenerRegistered>>
    /\ UNCHANGED <<engineAndQueueVars, drainVars, parameterVars, threadShouldExit, pcStop,
                   timerRunning>>

\* wait(ms) returns: the time is over or the thread was notified.
RunWaitOver ==
    /\ pcListener \in {"wait(100)", "wait(1000)", "wait(10)"}
    /\ pcListener' = "loop"
    /\ UNCHANGED <<engineAndQueueVars, drainVars, parameterVars, threadShouldExit,
                   receiverConnected, listenerRegistered, pcStop, timerRunning>>

\* After the loop: removeListener, disconnect if connected; run() returns.
RunCleanup ==
    /\ pcListener = "cleanup"
    /\ listenerRegistered' = FALSE
    /\ receiverConnected' = ConnectedAfterCleanup(receiverConnected)
    /\ pcListener' = "exited"
    /\ UNCHANGED <<engineAndQueueVars, drainVars, parameterVars, threadShouldExit, pcStop,
                   timerRunning>>

\* The receiver hands a message to its listener: it is connected and the
\* listener was added.
ReceiverCallback ==
    /\ receiverConnected
    /\ listenerRegistered
    /\ OscMessageReceived

\* The destructor, on the message thread like the timer and with no block
\* being processed: stopTimer(), then stopOSCListener() up to the request of
\* stopThread(1000), which sets the exit flag and notifies the thread.
StopRequest ==
    /\ pcStop = "idle"
    /\ pcDrain = "idle"
    /\ pcAudio = "idle"
    /\ timerRunning' = FALSE
    /\ IF pcListener # "none"
       THEN /\ threadShouldExit' = TRUE
            /\ pcStop' = "stopThread"
       ELSE /\ pcStop' = "disconnect"
            /\ UNCHANGED threadShouldExit
    /\ UNCHANGED <<engineAndQueueVars, drainVars, parameterVars, pcListener,
                   receiverConnected, listenerRegistered>>

\* stopThread(1000) returns when run() has returned; oscListenerThread.reset().
\* Between two polls the thread only connects, adds the listener and waits,
\* and the notify ends the wait, so the thread is taken to be through within
\* the second stopThread allows before it would kill the thread.
StopThreadJoined ==
    /\ pcStop = "stopThread"
    /\ pcListener = "exited"
    /\ pcListener' = "none"
    /\ threadShouldExit' = FALSE
    /\ pcStop' = "disconnect"
    /\ UNCHANGED <<engineAndQueueVars, drainVars, parameterVars, receiverConnected,
                   listenerRegistered, timerRunning>>

\* if (oscReceiver.isConnected()) oscReceiver.disconnect(); the call returns.
StopDisconnect ==
    /\ pcStop = "disconnect"
    /\ receiverConnected' = FALSE
    /\ pcStop' = "returned"
    /\ UNCHANGED <<engineAndQueueVars, drainVars, parameterVars, pcListener,
                   threadShouldExit, listenerRegistered, timerRunning>>

\* What a sender has for the receiver: a style value or the enable switch.
ListenerPackets ==
    QueuePackets \cup {OscPacket("/style/enable", "bool", 0),
                       OscPacket("/style/enable", "bool", 1)}

\* The constructor takes `if (oscEnabled) startOSCListener()` by the value of
\* the oscEnabled parameter.  With the declared default, false, no thread is
\* started; the scenario also covers the thread started by that branch.
InitListener ==
    /\ InitEngineAtRest
    /\ variant = TimerBuild
    /\ pending \in {<<>>} \cup {<<p>> : p \in ListenerPackets}
    /\ clock = 0
    /\ validStart = 0
    /\ validEnd = 0
    /\ oscMessages = [i \in Slots |-> DefaultOSCMessage]
    /\ internalMessage = DefaultOSCMessage
    /\ writeIndex = 0
    /\ pcProducer = "idle"
    /\ numMessages = 0
    /\ drainI = 0
    /\ readIndex = 0
    /\ pcDrain = "idle"
    /\ drainCaller = "none"
    /\ \E enabled \in BOOLEAN :
          /\ parameters = [DefaultParameters EXCEPT !.oscEnabled = enabled]
          /\ oscEnabled = enabled
          /\ pcListener = IF enabled THEN "loop" ELSE "none"
    /\ currentStyle = DefaultStyle
    /\ pcAudio = "idle"
    /\ hostBpm = currentBPM
    /\ published = <<>>
    /\ consumed = <<>>
    /\ liveSeen = {}
    /\ threadShouldExit = FALSE
    /\ receiverConnected = FALSE
    /\ listenerRegistered = FALSE
    /\ pcStop = "idle"
    /\ timerRunning = TRUE

ListenerStep ==
    \/ RunPoll
    \/ RunBody
    \/ RunConnect
    \/ RunWaitOver
    \/ RunCleanup

\* The host's audio thread in processBlock of the plugin.
AudioStep ==
    \/ processBlock
    \/ ReadSwingRatio
    \/ ReadAccentAmount
    \/ ReadHumanizeTiming
    \/ ReadHumanizeVelocity
    \/ CallStyleEngine
    \/ GetNextEvent(1)
    \/ StepSwing(1)
    \/ StepAccent(1)
    \/ StepHumanization(1)
    \/ StepAddEvent(1)
    \/ ReplaceBuffer(1)
    \/ ProcessBlockReturn

StopStep ==
    \/ StopRequest
    \/ StopThreadJoined
    \/ StopDisconnect

NextListener ==
    \/ ListenerStep
    \/ StopStep
    \/ AudioStep
    \/ setOSCEnabled
    \/ setStateInformation
    \/ ReceiverCallback
    \/ StoreAddress
    \/ StoreValue
    \/ timerCallback
    \/ DrainRead
    \/ DrainUse
    \/ DrainEnd

\* The listener thread, the receiver, the timer, the host's audio thread and
\* the destructor; the listener thread, the audio thread inside a block and
\* the thread in the destructor are scheduled again and again.
SpecListener ==
    /\ InitListener
    /\ [][NextListener]_vars
    /\ WF_vars(ListenerStep)
    /\ WF_vars(StopStep)
    /\ WF_vars(pcAudio # "idle" /\ AudioStep)

\* ------------------------------------------------------------------------
\* Properties of the single transforms (checked under SpecTransform)
\* ------------------------------------------------------------------------

\* The message under call is a note-on with velocity 1 .. 127.
TestIsNoteOn ==
    testMessage.kind = "NoteOn" /\ testMessage.d2 > 0

\* Beat fraction of the message under call, in tenths of a beat, compared with n.
TestFractionBelow(n) ==
    10 * (testMessage.ts % TicksPerBeat(testBpm)) < n * TicksPerBeat(testBpm)

TestFractionAbove(n) ==
    10 * (testMessage.ts % TicksPerBeat(testBpm)) > n * TicksPerBeat(testBpm)

\* C1: every message that is not a note-on (note-off, controller, pitch wheel,
\* note-on status with velocity 0) is returned by applySwing, applyAccent and
\* applyHumanization unchanged in kind, channel, data and time stamp.
C1_NonNoteOnUnchanged ==
    (called # "none" /\ ~TestIsNoteOn) => result = testMessage

C1_Witness ==
    /\ called = "applyHumanization"
    /\ testMessage.kind = "NoteOff"
    /\ testStyle.humanizeTimingAmount > 0
    /\ result = testMessage

\* C2 (as claimed): inside the accent window the returned velocity is
\* clamp(originalVelocity + round(accentAmount), 0, 127).
C2_AccentAddsRounded ==
    (called = "applyAccent" /\ TestIsNoteOn
        /\ (TestFractionBelow(1) \/ TestFractionAbove(9)))
      => result.d2 = jlimit(0, 127, testMessage.d2 + RoundDiv(testStyle.accentAmount, 10))

\* C2 (amended): inside the accent window the returned velocity is
\* clamp(originalVelocity + trunc(accentAmount), 0, 127): the accent is added
\* to the original velocity, and a fractional accentAmount is truncated toward
\* zero before it is added.
C2_AccentAddsTruncated ==
    (called = "applyAccent" /\ TestIsNoteOn
        /\ (TestFractionBelow(1) \/ TestFractionAbove(9)))
      => result.d2 = jlimit(0, 127, testMessage.d2 + TruncDiv(testStyle.accentAmount, 10))

C2_Witness ==
    /\ called = "applyAccent"
    /\ testMessage.kind = "NoteOn" /\ testMessage.d2 = 80 /\ testMessage.ts = 0
    /\ testStyle.accentAmount = 157
    /\ result.d2 = 95

\* C3: for every note-on and every accentAmount the velocity returned by
\* applyAccent lies in 0 .. 127, and it equals the input velocity whenever the
\* beat fraction lies in [0.1, 0.9].
C3_AccentVelocityRange ==
    (called = "applyAccent" /\ TestIsNoteOn)
      => /\ result.d2 \in 0 .. 127
         /\ (~TestFractionBelow(1) /\ ~TestFractionAbove(9)) => result.d2 = testMessage.d2

C3_Witness ==
    /\ called = "applyAccent"
    /\ TestIsNoteOn
    /\ 10 * (testMessage.ts % TicksPerBeat(testBpm)) = TicksPerBeat(testBpm)
    /\ testStyle.accentAmount = -2000
    /\ result.d2 = testMessage.d2

C5_SwingDelayExact ==
    (called = "applySwing" /\ TestIsNoteOn /\ TestFractionAbove(4) /\ TestFractionBelow(6))
      => result.ts = testMessage.ts
                       + ((testStyle.swingRatio - 50) * TicksPerBeat(testBpm)) \div 400

\* C5 (amended): inside the swing window the returned time stamp is
\* originalTimestamp + n / sampleRate seconds, where n is
\* (swingRatio - 0.5) * 0.25 * sampleRate * 60 / bpm truncated toward zero to a
\* whole number of samples.
C5_SwingDelayWholeSamples ==
    (called = "applySwing" /\ TestIsNoteOn /\ TestFractionAbove(4) /\ TestFractionBelow(6))
      => result.ts = testMessage.ts
                       + TruncDiv((testStyle.swingRatio - 50) * testSampleRate * 60,
                                  400 * testBpm) * (TicksPerSecond \div testSampleRate)

\* 0.25 s at 120 BPM and 44100 Hz with swingRatio 0.7: 1102 samples, not 1102.5.
C5_Witness ==
    /\ called = "applySwing"
    /\ TestIsNoteOn
    /\ testMessage.ts = TicksPerSecond \div 4
    /\ testBpm = 120 /\ testSampleRate = 44100 /\ testStyle.swingRatio = 70
    /\ result.ts = testMessage.ts + 1102 * (TicksPerSecond \div 44100)

\* C6: on a note-on, humanizeTimingAmount = 0 leaves the time stamp unchanged
\* and draws no timing value, humanizeVelocityAmount = 0 leaves the velocity
\* unchanged and draws no velocity value; with both 0 the returned message
\* equals the input and the generator state is the one before the call.
C6_ZeroHumanizationNoOp ==
    (called = "applyHumanization" /\ TestIsNoteOn)
      => LET t == testStyle.humanizeTimingAmount
             v == testStyle.humanizeVelocityAmount
             after == humanizationRandom[1]
         IN  /\ t = 0 => result.ts = testMessage.ts
             /\ v = 0 => result.d2 = testMessage.d2
             /\ (t = 0 /\ v > 0) => after = NextRandom(randomBefore[1])
             /\ (t > 0 /\ v = 0) => after = NextRandom(randomBefore[1])
             /\ (t = 0 /\ v = 0) => (result = testMessage /\ after = randomBefore[1])

C6_Witness ==
    /\ called = "applyHumanization"
    /\ TestIsNoteOn
    /\ testStyle.humanizeTimingAmount = 0 /\ testStyle.humanizeVelocityAmount = 0
    /\ result = testMessage
    /\ humanizationRandom[1] = randomBefore[1]

\* C7: for every note-on, every draw and every humanize amount in [0,1] the
\* returned time stamp is within 5 ms * humanizeTimingAmount of the input time
\* stamp, and the returned velocity is in 0 .. 127 and differs from the input
\* velocity by at most floor(10 * humanizeVelocityAmount).
C7_HumanizationBounded ==
    (called = "applyHumanization" /\ TestIsNoteOn)
      => /\ Abs(result.ts - testMessage.ts) * 1000
              <= 5 * testStyle.humanizeTimingAmount * (TicksPerSecond \div 100)
         /\ result.d2 \in 0 .. 127
         /\ Abs(result.d2 - testMessage.d2)
              <= (10 * testStyle.humanizeVelocityAmount) \div 100

\* The largest timing offset (the draw 0, a random value of -1) together with
\* a velocity that the second draw has changed.
C7_Witness ==
    /\ called = "applyHumanization"
    /\ TestIsNoteOn
    /\ testStyle.humanizeTimingAmount = 100
    /\ result.ts = testMessage.ts - 5 * (TicksPerSecond \div 1000)
    /\ testStyle.humanizeVelocityAmount = 100
    /\ result.d2 # testMessage.d2

\* C22: no transform changes the channel or the note number of a message;
\* applySwing returns a note-on with its velocity unchanged and applyAccent
\* returns a note-on with its time stamp unchanged.
C22_ChannelAndNoteKept ==
    called # "none"
      => /\ result.channel = testMessage.channel
         /\ result.d1 = testMessage.d1
         /\ (called = "applySwing" /\ TestIsNoteOn) => result.d2 = testMessage.d2
         /\ (called = "applyAccent" /\ TestIsNoteOn) => result.ts = testMessage.ts

\* The tests' noteOn(3, 72, .) inside the swing window: delayed by applySwing,
\* channel, note and velocity as they were.
C22_Witness ==
    /\ called = "applySwing"
    /\ testMessage.kind = "NoteOn" /\ testMessage.channel = 3 /\ testMessage.d1 = 72
    /\ testMessage.ts = TicksPerSecond \div 4
    /\ testBpm = 120 /\ testStyle.swingRatio = 70
    /\ result.ts > testMessage.ts
    /\ result.channel = 3 /\ result.d1 = 72 /\ result.d2 = testMessage.d2

C24_NoteOnStaysNoteOn ==
    (called # "none" /\ TestIsNoteOn) => isNoteOn(result)

\* The integer applyHumanization drew for the velocity of the call under test:
\* the velocity draw is the last draw of the call.
TestVelocityDraw ==
    nextInt(humanizationRandom[1], MaxVelocityOffset * 2 + 1) - MaxVelocityOffset

\* C25 (as claimed): with humanizeVelocityAmount > 0 the velocity offset is the
\* drawn integer r in [-10,10] times humanizeVelocityAmount rounded to the
\* nearest integer, added before the clamp to [0,127].
C25_OffsetRounded ==
    (called = "applyHumanization" /\ TestIsNoteOn
       /\ testStyle.humanizeVelocityAmount > 0)
      => /\ TestVelocityDraw \in -10 .. 10
         /\ result.d2 = jlimit(0, 127, testMessage.d2
               + RoundDiv(TestVelocityDraw * testStyle.humanizeVelocityAmount, 100))

\* C25 (amended): the velocity offset is the drawn integer r in [-10,10] times
\* humanizeVelocityAmount with the fractional part dropped (toward zero),
\* added before the clamp to [0,127]: r = 5 with amount 0.3 adds 1, r = -9
\* with amount 0.3 adds -2.
C25_OffsetTruncated ==
    (called = "applyHumanization" /\ TestIsNoteOn
       /\ testStyle.humanizeVelocityAmount > 0)
      => /\ TestVelocityDraw \in -10 .. 10
         /\ result.d2 = jlimit(0, 127, testMessage.d2
               + TruncDiv(TestVelocityDraw * testStyle.humanizeVelocityAmount, 100))
         /\ (TestVelocityDraw = 5 /\ testStyle.humanizeVelocityAmount = 30)
               => result.d2 = testMessage.d2 + 1
         /\ (TestVelocityDraw = -9 /\ testStyle.humanizeVelocityAmount = 30
               /\ testMessage.d2 >= 2)
               => result.d2 = testMessage.d2 - 2

C25_Witness ==
    /\ called = "applyHumanization"
    /\ TestIsNoteOn /\ testMessage.d2 = 80
    /\ testStyle.humanizeVelocityAmount = 30
    /\ TestVelocityDraw = -9
    /\ result.d2 = 78

C9_OneEventPerInputSorted ==
    \A c \in Processors :
        pc[c] = "done" =>
            LET out == midiMessages[c]
            IN  /\ Len(out) = Len(testBuffer)
                /\ {out[i].id : i \in 1 .. Len(out)} = 1 .. Len(testBuffer)
                /\ \A i \in 1 .. Len(out) - 1 :
                      /\ out[i].samplePosition <= out[i + 1].samplePosition
                      /\ out[i].samplePosition = out[i + 1].samplePosition
                            => out[i].id < out[i + 1].id

OutputOf(c, id) ==
    LET out == midiMessages[c]
    IN  out[CHOOSE i \in 1 .. Len(out) : out[i].id = id]

Survives(c, id) ==
    \E i \in 1 .. Len(midiMessages[c]) : midiMessages[c][i].id = id

\* Input event i is a note-on and the later input event j its note-off.
IsNotePair(i, j) ==
    /\ i < j
    /\ testBuffer[i].kind = "NoteOn" /\ testBuffer[i].d2 > 0
    /\ testBuffer[j].kind = "NoteOff"
    /\ testBuffer[j].channel = testBuffer[i].channel
    /\ testBuffer[j].d1 = testBuffer[i].d1

\* C26: applyStyle does not pair a note-on with its note-off.  A note-off is
\* returned with its bytes unchanged at the offset of its own time stamp,
\* whatever happened to its note-on; and when the note-on before it in the
\* buffer is delayed by swing (no timing humanization), the note-on is
\* returned at a sample offset at or after the note-off's.
C26_NoteOffNotPaired ==
    pc[1] = "done" =>
        \A j \in 1 .. Len(testBuffer) :
            testBuffer[j].kind = "NoteOff" =>
                /\ Survives(1, j)
                /\ OutputOf(1, j) =
                      [testBuffer[j] EXCEPT
                          !.samplePosition =
                              SampleOffset(getNextEvent(testBuffer[j]).ts, testSampleRate)]
                /\ \A i \in 1 .. j - 1 :
                      (/\ IsNotePair(i, j)
                       /\ testBuffer[i].samplePosition = testBuffer[j].samplePosition
                       /\ testStyle.humanizeTimingAmount = 0
                       /\ SwingDelayTicks(SwingDelay400(getNextEvent(testBuffer[i]).ts,
                                                        testStyle, testBpm),
                                          testBpm, testSampleRate) > 0)
                        => /\ Survives(1, i)
                           /\ OutputOf(1, i).samplePosition > OutputOf(1, j).samplePosition

\* A note-on followed in the buffer by its note-off comes back at a later
\* sample offset than the note-off: the returned buffer has them reversed.
C26_Witness ==
    /\ pc[1] = "done"
    /\ Len(testBuffer) = 2
    /\ IsNotePair(1, 2)
    /\ testStyle.swingRatio \in 0 .. 100
    /\ testStyle.humanizeTimingAmount = 0
    /\ Survives(1, 1) /\ Survives(1, 2)
    /\ OutputOf(1, 1).samplePosition >= OutputOf(1, 2).samplePosition
    /\ midiMessages[1][1].id = 2
    /\ midiMessages[1][2].id = 1

\* C27: applyStyle leaves untouched events where they were: an event that is
\* not a note-on, or a note-on outside the swing window when
\* humanizeTimingAmount is 0, is returned at the sample position it had in the
\* input buffer, and with the neutral style the returned buffer equals the
\* input buffer.
C27_UntouchedStayInPlace ==
    pc[1] = "done" =>
        /\ \A j \in 1 .. Len(testBuffer) :
              (\/ ~isNoteOn(getNextEvent(testBuffer[j]))
               \/ /\ testStyle.humanizeTimingAmount = 0
                  /\ ~InSwingWindow(getNextEvent(testBuffer[j]).ts, testBpm))
                => /\ Survives(1, j)
                   /\ OutputOf(1, j).samplePosition = testBuffer[j].samplePosition
        /\ testStyle = NeutralStyle => midiMessages[1] = testBuffer

\* C28: with input events at non-negative time stamps and a style within the
\* declared ranges, every event applyStyle adds to its output has a
\* non-negative time stamp and a non-negative sample offset, and so has every
\* event of the returned buffer.
C28_NothingBeforeZero ==
    /\ pc[1] = "addEvent"
          => /\ processedMessage[1].ts >= 0
             /\ SampleOffset(processedMessage[1].ts, testSampleRate) >= 0
    /\ \A i \in 1 .. Len(processedBuffer[1]) : processedBuffer[1][i].samplePosition >= 0

\* ------------------------------------------------------------------------
\* Properties of the OSC queue (checked under SpecQueue)
\* ------------------------------------------------------------------------

\* C11: whenever the drain loop reads oscMessages[index] because the FIFO
\* reported the slot ready, the slot holds the complete message that
\* oscMessageReceived enqueued at that place of the order, in every
\* interleaving of the two.
C11_ReadsCompleteMessage ==
    \A k \in 1 .. Len(consumed) : consumed[k].got = consumed[k].expected

\* C12: from the step that obtains a slot index from the FIFO until the body of
\* the loop is through with the message, no step writes to that slot.
C12_SlotInUseNotWritten ==
    [][pcDrain = "use" => oscMessages'[readIndex] = oscMessages[readIndex]]_vars

\* C13: once more messages were delivered than the ring has slots, and nothing
\* was drained, exactly as many messages as there are slots are retained, and
\* the slots hold the retained messages unmodified.
C13_OverflowKeepsCapacity ==
    (/\ clock > FifoSize
     /\ pcProducer = "idle"
     /\ consumed = <<>>
     /\ validStart = 0)
    => /\ Len(published) = FifoSize
       /\ getNumReady(validStart, validEnd) = FifoSize
       /\ \A k \in 1 .. Len(published) : oscMessages[k - 1] = published[k]

\* The enqueued messages that were ready when the drain cycle now at its end
\* started, and the last of them that sets parameter id.
CycleMessages ==
    SubSeq(published, Len(consumed) - numMessages + 1, Len(consumed))

SettersOf(id, messages) ==
    {k \in 1 .. Len(messages) :
        ParameterOf(messages[k].address) = id /\ messages[k].value.type = "double"}

LastSetterOf(id, messages) ==
    messages[CHOOSE k \in SettersOf(id, messages) :
                \A j \in SettersOf(id, messages) : j <= k]

\* C14: no enqueued message is applied twice, and when a drain cycle has gone
\* through the messages that were ready at its start, every parameter that
\* well-formed messages of the cycle address holds the clamped value of the
\* last of them.
C14_OnceAndLastWriteWins ==
    /\ \A j, k \in 1 .. Len(consumed) :
          (/\ consumed[j].got # DefaultOSCMessage
           /\ consumed[j].got.timestamp = consumed[k].got.timestamp) => j = k
    /\ (pcDrain = "loop" /\ drainI = numMessages /\ numMessages > 0)
       => \A id \in {"swingRatio", "accentAmount"} :
             SettersOf(id, CycleMessages) # {}
             => parameters[id] =
                   jlimit(0, RangeEnd(id),
                          InUnits(id, LastSetterOf(id, CycleMessages).value))

\* ------------------------------------------------------------------------
\* Properties of the parameters and of processBlock (checked under
\* SpecParameters)
\* ------------------------------------------------------------------------

\* C15: whatever control messages were delivered and drained, the live
\* parameters are inside their declared ranges: swingRatio in [0, 1],
\* accentAmount in [0, 50], both humanize amounts in [0, 1].
C15_ParametersInRange ==
    /\ parameters.swingRatio \in 0 .. 100
    /\ parameters.accentAmount \in 0 .. 500
    /\ parameters.humanizeTimingAmount \in 0 .. 100
    /\ parameters.humanizeVelocityAmount \in 0 .. 100

\* A message no branch of the drain may act on: an address that is not one of
\* the five tags, a tag of a number without a number, or enable without a bool.
Malformed(message) ==
    \/ message.address \notin {"/style/swing", "/style/accent", "/style/humanizeTiming",
                               "/style/humanizeVelocity", "/style/enable"}
    \/ message.address = "/style/enable" /\ message.value.type # "bool"
    \/ message.address # "/style/enable" /\ message.value.type # "double"

C17_OnlyTimerDrains ==
    [][(\/ validStart' # validStart
        \/ parameters' # parameters
        \/ oscEnabled' # oscEnabled) => drainCaller = "timerCallback"]_vars

\* C18: the StyleParameters copy processBlock has taken when it calls the
\* engine equals the live parameter values of one single instant of the block,
\* and the engine works on that copy until applyStyle has returned.
C18_CopyIsOneInstant ==
    /\ pcAudio = "styleEngine" => currentStyle \in liveSeen
    /\ pcAudio = "applyStyle" => testStyle = EngineStyle(currentStyle)

\* C19: the tempo handed to applyStyle for a block is the tempo the host has
\* at that block.
C19_HostTempoPassed ==
    [][(pcAudio = "styleEngine" /\ pcAudio' = "applyStyle") => testBpm' = hostBpm]_vars

\* ------------------------------------------------------------------------
\* Properties of the listener thread (checked under SpecListener)
\* ------------------------------------------------------------------------

C21_ConnectRetried ==
    /\ [][(pcListener = "connect" /\ pcListener' # "connect" /\ ~receiverConnected')
          => (pcListener' = "wait(1000)" /\ parameters' = parameters
              /\ oscEnabled' = oscEnabled)]_vars
    /\ (pcListener = "wait(1000)"
          ~> (pcListener = "connect" \/ ~oscEnabled \/ threadShouldExit))
    /\ [](receiverConnected => pcListener # "connect")
    /\ (pcAudio # "idle" ~> pcAudio = "idle")

\* A connect has failed and the thread waits to try again, OSC being enabled
\* and no stop requested, while processBlock is inside applyStyle.
C21_Witness ==
    /\ pcListener = "wait(1000)"
    /\ ~receiverConnected
    /\ oscEnabled
    /\ ~threadShouldExit
    /\ pcAudio = "applyStyle"

\* C29: whenever OSC control is enabled (the member or the parameter) and
\* there is no listener thread, the thread is eventually started, unless OSC
\* is disabled again or the processor is destroyed; and isOSCEnabled(), the
\* member oscEnabled, agrees with the oscEnabled parameter after every
\* operation.
C29_EnabledStartsListener ==
    /\ [](oscEnabled = parameters.oscEnabled)
    /\ (((oscEnabled \/ parameters.oscEnabled) /\ pcListener = "none" /\ pcStop = "idle")
          ~> (\/ pcListener # "none"
              \/ ~(oscEnabled \/ parameters.oscEnabled)
              \/ pcStop # "idle"))

====
